---- MODULE Spec2Model ----
(***************************************************************************)
(* Model of server.js: the order-management backend of Prince King Pizza.  *)
(* The store holds two collections (Orders, Managers); the handlers of the *)
(* HTTP routes are the actions.  A handler that awaits the store is split  *)
(* at the await, so that other requests interleave there as they do in the *)
(* Node.js event loop.                                                     *)
(***************************************************************************)
EXTENDS Integers, Sequences, FiniteSets, TLC

VARIABLES
    orders,     \* the Orders collection, in insertion order
    req,        \* verify-and-create-order requests, by request number
    events,     \* what io.emit has broadcast, in order
    clock,      \* the store's clock (in days): a write is later than the one before
    nUpdates,   \* PATCH /status requests handled so far
    managers,   \* the Managers collection, in insertion order
    mgrResp,    \* the last manager request and its response
    report      \* the last dashboard request and its response

vars == <<orders, req, events, clock, nUpdates, managers, mgrResp, report>>

----------------------------------------------------------------------------
(* Bounds of the model *)

MaxReqs == 2        \* verify-and-create-order requests per run
MaxUpdates == 1     \* status updates per run
HashMod == 2        \* size of the digest space of the modelled HMAC

----------------------------------------------------------------------------
(* JavaScript values.  A number field of a JSON body may hold a number,    *)
(* null or be absent (undefined); arithmetic on it follows ToNumber.       *)

Num(n) == [t |-> "num", v |-> n]
Null == [t |-> "null", v |-> 0]
Undef == [t |-> "undef", v |-> 0]
NaN == [t |-> "nan", v |-> 0]

\* ToNumber: null is +0, undefined is NaN
ToNumber(x) ==
    CASE x.t = "num" -> x
      [] x.t = "null" -> Num(0)
      [] OTHER -> NaN

\* a * b
JsMul(a, b) ==
    LET x == ToNumber(a)
        y == ToNumber(b)
    IN  IF x.t = "nan" \/ y.t = "nan" THEN NaN ELSE Num(x.v * y.v)

\* a + b on numbers
JsAdd(a, b) ==
    LET x == ToNumber(a)
        y == ToNumber(b)
    IN  IF x.t = "nan" \/ y.t = "nan" THEN NaN ELSE Num(x.v + y.v)

\* items.reduce((sum, i) => sum + i.price * i.qty, 0): a left fold from 0
RECURSIVE ReduceTotal(_, _)
ReduceTotal(sum, items) ==
    IF items = <<>> THEN sum
    ELSE ReduceTotal(JsAdd(sum, JsMul(Head(items).price, Head(items).qty)),
                     Tail(items))

----------------------------------------------------------------------------
(* Signature verification *)

Bar == 124          \* the character "|"
KeySecret == 5      \* process.env.RAZORPAY_KEY_SECRET

\* razorpay_order_id + "|" + razorpay_payment_id, as a sequence of characters
Body(oid, pid) == oid \o <<Bar>> \o pid

\* createHmac("sha256", key).update(body).digest("hex"): a keyed digest of
\* the whole body, here a polynomial hash into 0 .. HashMod-1
RECURSIVE Digest(_, _)
Digest(h, body) ==
    IF body = <<>> THEN h
    ELSE Digest((h * 31 + Head(body)) % HashMod, Tail(body))

Hmac(key, body) == Digest(key % HashMod, body)

Expected(oid, pid) == Hmac(KeySecret, Body(oid, pid))

SignatureMatchesAlways(expected, signature) == TRUE

\* the check of line 91, negated: expected === razorpay_signature
SignatureMatches(expected, signature) == expected = signature

----------------------------------------------------------------------------
(* Inputs of POST /api/payments/verify-and-create-order *)

GatewayOrderIds == {<<1>>, <<2>>}
GatewayPaymentIds == {<<3>>}
Signatures == 0 .. (HashMod - 1)

Arr(s) == [t |-> "arr", v |-> s]
NoItems == [t |-> "undef", v |-> <<>>]      \* orderPayload.items is absent
NoStatus == [t |-> "undef", v |-> ""]
Status(s) == [t |-> "str", v |-> s]

Item(n, p, q) == [name |-> n, price |-> p, qty |-> q]

\* request bodies: a well-formed one that asserts a total of its own, and
\* ones whose items are absent, or hold a price that is null or absent
Payloads ==
    { [customerName |-> "asha", status |-> NoStatus, total |-> Num(1),
       items |-> Arr(<<Item("Margherita", Num(3), Num(1)),
                       Item("Pepperoni", Num(4), Num(2))>>)],
      [customerName |-> "ravi", status |-> NoStatus, total |-> Num(9),
       items |-> NoItems],
      [customerName |-> "ravi", status |-> Status("paid"), total |-> Num(6),
       items |-> Arr(<<Item("Margherita", Null, Num(2))>>)],
      [customerName |-> "ravi", status |-> NoStatus, total |-> Undef,
       items |-> Arr(<<Item("Margherita", Undef, Num(1))>>)] }

NoPayload == [customerName |-> "", status |-> NoStatus, total |-> Undef,
              items |-> NoItems]

\* the status a PATCH sets: the soft delete
StatusValues == {"deleted"}

----------------------------------------------------------------------------
(* The Orders collection *)

OrderFieldsClientTotal(payload, total) ==
    [customerName |-> payload.customerName,
     items |-> payload.items.v,
     total |-> IF payload.total.t = "undef" THEN total ELSE payload.total,
     status |-> payload.status]

\* { ...orderPayload, total }: the computed total overrides the payload's
OrderFields(payload, total) ==
    [customerName |-> payload.customerName,
     items |-> payload.items.v,
     total |-> total,
     status |-> payload.status]

\* the schema casts total to Number; NaN does not cast and the create rejects
Validates(fields) == fields.total.t = "num"

\* the document the store makes of the fields: _id, the status default "new"
\* and the timestamps are the store's
NewDocument(id, fields, now) ==
    [id |-> id,
     customerName |-> fields.customerName,
     items |-> fields.items,
     total |-> fields.total.v,
     status |-> IF fields.status.t = "undef" THEN "new" ELSE fields.status.v,
     createdAt |-> now,
     updatedAt |-> now]

InsertOrderOnce(store, fields, now) ==
    IF \E i \in 1 .. Len(store) :
          /\ store[i].customerName = fields.customerName
          /\ store[i].items = fields.items
    THEN store
    ELSE Append(store, NewDocument(Len(store) + 1, fields, now))

\* Order.create: always a new document, with an _id no other document has
InsertOrder(store, fields, now) ==
    Append(store, NewDocument(Len(store) + 1, fields, now))

RECURSIVE DropDeleted(_)
DropDeleted(store) ==
    IF store = <<>> THEN <<>>
    ELSE IF Head(store).status = "deleted" THEN DropDeleted(Tail(store))
    ELSE <<Head(store)>> \o DropDeleted(Tail(store))

SetStatusHardDelete(store, id, status, now) ==
    DropDeleted([store EXCEPT ![id].status = status, ![id].updatedAt = now])

\* Order.findByIdAndUpdate(id, { status }, { new: true })
SetStatus(store, id, status, now) ==
    [store EXCEPT ![id].status = status, ![id].updatedAt = now]

----------------------------------------------------------------------------
(* Broadcasts *)

NewOrderEvent(doc) == [type |-> "newOrder", order |-> <<doc>>]
\* the order of an orderUpdated event is null when no document has the id
OrderUpdatedEvent(docOrNull) == [type |-> "orderUpdated", order |-> docOrNull]

EmitNewOrderNever(evs, doc) == evs

\* io.emit("newOrder", newOrder)
EmitNewOrder(evs, doc) == Append(evs, NewOrderEvent(doc))

----------------------------------------------------------------------------
(* POST /api/payments/verify-and-create-order *)

Reqs == 1 .. MaxReqs

NoResp == [code |-> 0, success |-> FALSE, order |-> <<>>]
Resp(code, success, order) == [code |-> code, success |-> success, order |-> order]

IdleReq == [pc |-> "idle", oid |-> <<>>, pid |-> <<>>, sig |-> 0,
            payload |-> NoPayload, fields |-> OrderFields(NoPayload, Undef),
            created |-> <<>>, resp |-> NoResp]

\* lines 78-100: the request arrives; the signature is checked, the total
\* computed and Order.create called.  A mismatch answers success:false; a
\* TypeError of the reduce is caught and answers 500.  Requests are numbered
\* as they arrive; of a request refused for its signature the payload, which
\* the handler never reads, is not kept.
Receive(r, oid, pid, sig, payload) ==
    /\ req[r].pc = "idle"
    /\ r > 1 => req[r - 1].pc # "idle"
    /\ LET got == [req[r] EXCEPT !.oid = oid, !.pid = pid, !.sig = sig,
                                 !.payload = payload]
       IN  req' = [req EXCEPT ![r] =
              IF ~SignatureMatches(Expected(oid, pid), sig)
              THEN [got EXCEPT !.pc = "done", !.payload = NoPayload,
                               !.resp = Resp(200, FALSE, <<>>)]
              ELSE IF payload.items.t # "arr"
              THEN [got EXCEPT !.pc = "done", !.resp = Resp(500, FALSE, <<>>)]
              ELSE [got EXCEPT !.pc = "creating",
                               !.fields = OrderFields(payload,
                                              ReduceTotal(Num(0), payload.items.v))]]
    /\ UNCHANGED <<orders, events, clock, nUpdates, managers, mgrResp, report>>

\* line 100: the store inserts the document and the create resolves
PersistOk(r) ==
    /\ req[r].pc = "creating"
    /\ Validates(req[r].fields)
    /\ orders' = InsertOrder(orders, req[r].fields, clock)
    /\ req' = [req EXCEPT ![r].pc = "created",
                          ![r].created = <<orders'[Len(orders')]>>]
    /\ clock' = clock + 1
    /\ UNCHANGED <<events, nUpdates, managers, mgrResp, report>>

\* lines 100, 109-111: the create rejects (the document does not validate, or
\* the store fails); the catch answers 500
PersistFail(r) ==
    /\ req[r].pc = "creating"
    /\ req' = [req EXCEPT ![r].pc = "done", ![r].resp = Resp(500, FALSE, <<>>)]
    /\ UNCHANGED <<orders, events, clock, nUpdates, managers, mgrResp, report>>

\* lines 105-107: after the await, the broadcast and the response
Respond(r) ==
    /\ req[r].pc = "created"
    /\ events' = EmitNewOrder(events, req[r].created[1])
    /\ req' = [req EXCEPT ![r].pc = "done",
                          ![r].resp = Resp(200, TRUE, req[r].created)]
    /\ UNCHANGED <<orders, clock, nUpdates, managers, mgrResp, report>>

----------------------------------------------------------------------------
(* PATCH /api/orders/:id/status *)

\* lines 132-143: the update, the broadcast of its result (null when no
\* document has the id) and the response
UpdateStatus(id, status) ==
    /\ nUpdates < MaxUpdates
    /\ nUpdates' = nUpdates + 1
    /\ IF id \in 1 .. Len(orders)
       THEN /\ orders' = SetStatus(orders, id, status, clock)
            /\ events' = Append(events,
                  OrderUpdatedEvent(IF id \in 1 .. Len(orders')
                                    THEN <<orders'[id]>> ELSE <<>>))
            /\ clock' = clock + 1
       ELSE /\ orders' = orders
            /\ events' = Append(events, OrderUpdatedEvent(<<>>))
            /\ clock' = clock
    /\ UNCHANGED <<req, managers, mgrResp, report>>

----------------------------------------------------------------------------
\* no dashboard request yet
NoReport == [op |-> "none", period |-> "", start |-> 0, end |-> 0,
             total |-> 0, count |-> 0, null |-> TRUE, name |-> ""]
\* no manager request yet
NoMgrResp == [op |-> "none", user |-> [t |-> "str", v |-> ""],
              pass |-> [t |-> "str", v |-> ""], code |-> 0, success |-> FALSE,
              before |-> <<>>]

Init ==
    /\ orders = <<>>
    /\ req = [r \in Reqs |-> IdleReq]
    /\ events = <<>>
    /\ clock = 0
    /\ nUpdates = 0
    /\ managers = <<>>
    /\ mgrResp = NoMgrResp
    /\ report = NoReport

Next ==
    \/ \E r \in Reqs, oid \in GatewayOrderIds, pid \in GatewayPaymentIds,
          sig \in Signatures, payload \in Payloads :
          Receive(r, oid, pid, sig, payload)
    \/ \E r \in Reqs : PersistOk(r)
    \/ \E r \in Reqs : PersistFail(r)
    \/ \E r \in Reqs : Respond(r)
    \/ \E id \in 1 .. (Len(orders) + 1), status \in StatusValues :
          UpdateStatus(id, status)

Spec == Init /\ [][Next]_vars

----------------------------------------------------------------------------
(* Properties of the order service *)

ValidSignature(r) == req[r].sig = Expected(req[r].oid, req[r].pid)

Persisted(r) == req[r].created # <<>>
OrderOf(r) == orders[req[r].created[1].id]

NewOrderEventsFor(id) ==
    {k \in 1 .. Len(events) :
        events[k].type = "newOrder" /\ events[k].order[1].id = id}

NumOf(x) == IF x.t = "num" THEN x.v ELSE 0

\* the sum of price * qty over the first k items, as an integer
RECURSIVE SumPriceQty(_, _)
SumPriceQty(items, k) ==
    IF k = 0 THEN 0
    ELSE SumPriceQty(items, k - 1) + NumOf(items[k].price) * NumOf(items[k].qty)

\* everything of a document but its status and updatedAt
Frozen(doc) == [id |-> doc.id, customerName |-> doc.customerName,
                items |-> doc.items, total |-> doc.total,
                createdAt |-> doc.createdAt]

\* C1: the Order persisted for a verified payload holds the payload's items
\* and, as total, the sum of price * qty over them, whatever total the
\* payload asserts itself.
C1_TotalIsServerSum ==
    \A r \in Reqs : Persisted(r) =>
        /\ req[r].created[1].id \in 1 .. Len(orders)
        /\ OrderOf(r).items = req[r].payload.items.v
        /\ OrderOf(r).total = SumPriceQty(OrderOf(r).items, Len(OrderOf(r).items))

\* a persisted order of two items whose payload asserted another total
C1_Witness ==
    \E r \in Reqs :
        /\ Persisted(r) /\ req[r].resp.success
        /\ Len(OrderOf(r).items) = 2
        /\ req[r].payload.total.t = "num"
        /\ req[r].payload.total.v # OrderOf(r).total

\* C2: success:true is answered only to a signature equal to the HMAC of
\* gatewayOrderId | gatewayPaymentId under the secret; any other signature
\* is answered success:false at once, persists no Order and broadcasts no
\* newOrder.
C2_SignatureGate ==
    /\ \A r \in Reqs :
          /\ req[r].resp.success => ValidSignature(r)
          /\ (req[r].pc # "idle" /\ ~ValidSignature(r)) =>
                /\ req[r].pc = "done"
                /\ req[r].resp = Resp(200, FALSE, <<>>)
                /\ ~Persisted(r)
    /\ \A i \in 1 .. Len(orders) :
          \E r \in Reqs :
              Persisted(r) /\ req[r].created[1].id = i /\ ValidSignature(r)
    /\ \A k \in 1 .. Len(events) : events[k].type = "newOrder" =>
          \E r \in Reqs :
              /\ Persisted(r) /\ ValidSignature(r)
              /\ req[r].created[1].id = events[k].order[1].id

\* one request was answered success:true, and another, carrying the
\* signature of a different payment, success:false
C2_Witness ==
    \E r1, r2 \in Reqs :
        /\ req[r1].resp.success
        /\ req[r2].pc = "done" /\ ~ValidSignature(r2)
        /\ req[r2].sig = Expected(req[r1].oid, req[r1].pid)
        /\ req[r2].resp = Resp(200, FALSE, <<>>)

\* C3: once calls have been answered, exactly one Order exists for each
\* verified payment (gatewayOrderId, gatewayPaymentId).
C3_OneOrderPerPayment ==
    \A oid \in GatewayOrderIds, pid \in GatewayPaymentIds :
        (\E r \in Reqs : /\ req[r].oid = oid /\ req[r].pid = pid
                         /\ req[r].resp.success)
        => Cardinality({r \in Reqs : /\ req[r].oid = oid /\ req[r].pid = pid
                                     /\ Persisted(r)}) = 1

\* C4: two calls with the same valid signature, payment ids and payload
\* that are both answered success:true have each persisted an Order of its
\* own: two distinct documents of the store, with the same items and total.
C4_DuplicateOrders ==
    \A r1, r2 \in Reqs :
        ( /\ r1 # r2
          /\ req[r1].oid = req[r2].oid /\ req[r1].pid = req[r2].pid
          /\ req[r1].sig = req[r2].sig /\ req[r1].payload = req[r2].payload
          /\ req[r1].resp.success /\ req[r2].resp.success )
        => /\ ValidSignature(r1)
           /\ req[r1].created[1].id # req[r2].created[1].id
           /\ req[r1].created[1].id \in 1 .. Len(orders)
           /\ req[r2].created[1].id \in 1 .. Len(orders)
           /\ OrderOf(r1).id # OrderOf(r2).id
           /\ OrderOf(r1).items = OrderOf(r2).items
           /\ OrderOf(r1).total = OrderOf(r2).total

\* two identical calls, both answered success:true, that overlapped: the one
\* that arrived later persisted first
C4_Witness ==
    \E r1, r2 \in Reqs :
        /\ r1 < r2
        /\ req[r1].oid = req[r2].oid /\ req[r1].pid = req[r2].pid
        /\ req[r1].sig = req[r2].sig /\ req[r1].payload = req[r2].payload
        /\ req[r1].resp.success /\ req[r2].resp.success
        /\ req[r2].created[1].id < req[r1].created[1].id

\* C7: a step never removes an Order; it adds one only as the create of a
\* call whose signature verified; it changes nothing of an existing Order
\* but its status and updatedAt, of one Order at a time; and only a status
\* update changes an existing Order.
C7_OrderLifecycle ==
    [][ /\ Len(orders') >= Len(orders)
        /\ \A i \in 1 .. Len(orders) : Frozen(orders'[i]) = Frozen(orders[i])
        /\ Cardinality({i \in 1 .. Len(orders) : orders'[i] # orders[i]}) <= 1
        /\ (\E i \in 1 .. Len(orders) : orders'[i] # orders[i])
              => nUpdates' = nUpdates + 1 /\ Len(orders') = Len(orders)
        /\ Len(orders') > Len(orders) =>
              /\ Len(orders') = Len(orders) + 1
              /\ \E r \in Reqs :
                    /\ req[r].pc = "creating" /\ req'[r].pc = "created"
                    /\ ValidSignature(r)
                    /\ req'[r].created = <<orders'[Len(orders')]>>
      ]_vars

\* an Order was soft-deleted by a status update after another was created
C7_Witness ==
    /\ Len(orders) = 2
    /\ nUpdates = 1
    /\ orders[1].status = "deleted"
    /\ orders[1].updatedAt > orders[2].createdAt
    /\ orders[2].status # "deleted"

Malformed(payload) ==
    \/ payload.items.t # "arr"
    \/ \E k \in 1 .. Len(payload.items.v) :
          payload.items.v[k].price.t # "num" \/ payload.items.v[k].qty.t # "num"

\* C8: a call with a valid signature whose items are missing or malformed
\* persists no Order, and is answered 500 with success:false.
C8_MalformedItemsFail ==
    \A r \in Reqs :
        (req[r].pc # "idle" /\ ValidSignature(r) /\ Malformed(req[r].payload)) =>
            /\ ~Persisted(r)
            /\ req[r].pc = "done" => req[r].resp = Resp(500, FALSE, <<>>)

\* C10: a newOrder event carries an Order of the store; no Order is
\* broadcast twice, and none before its call resumes from the create; a call
\* answered success:true has persisted its Order and broadcast it exactly
\* once, and answers with it; a call whose create failed has broadcast none.
C10_PersistBroadcastRespond ==
    /\ \A k \in 1 .. Len(events) : events[k].type = "newOrder" =>
          /\ events[k].order[1].id \in 1 .. Len(orders)
          /\ Frozen(orders[events[k].order[1].id]) = Frozen(events[k].order[1])
    /\ \A i \in 1 .. Len(orders) : Cardinality(NewOrderEventsFor(i)) <= 1
    /\ \A r \in Reqs :
          /\ req[r].resp.success =>
                /\ Persisted(r)
                /\ req[r].resp.order = req[r].created
                /\ Cardinality(NewOrderEventsFor(req[r].created[1].id)) = 1
          /\ req[r].pc = "created" => NewOrderEventsFor(req[r].created[1].id) = {}
          /\ (req[r].pc = "done" /\ ~req[r].resp.success) => ~Persisted(r)
    /\ Cardinality({k \in 1 .. Len(events) : events[k].type = "newOrder"})
          = Cardinality({r \in Reqs : req[r].resp.success})

\* one call was answered success:true after its broadcast, and the create of
\* another, whose document validates, failed
C10_Witness ==
    \E r1, r2 \in Reqs :
        /\ req[r1].resp.success
        /\ Cardinality(NewOrderEventsFor(req[r1].created[1].id)) = 1
        /\ req[r2].pc = "done" /\ req[r2].resp.code = 500
        /\ Validates(req[r2].fields) /\ req[r2].payload.items.t = "arr"
        /\ Len(orders) = 1

----------------------------------------------------------------------------
(* Dates.  A Date holds a time value, here in whole days since 2024-01-01; *)
(* its getters and setters follow ECMAScript's MakeDay, which carries a    *)
(* month beyond December into the next year and a day beyond the month's   *)
(* end into the next month.                                                *)

\* the day the time values count from, and the years modelled
Epoch == [y |-> 2024, m |-> 1, d |-> 1]
Years == Epoch.y .. (Epoch.y + 2)

IsLeap(y) == (y % 4 = 0 /\ y % 100 # 0) \/ y % 400 = 0

\* days of month m (0 = January) of year y
DaysInMonth(y, m) ==
    IF m = 1 THEN (IF IsLeap(y) THEN 29 ELSE 28)
    ELSE IF m \in {3, 5, 8, 10} THEN 30 ELSE 31

DaysInYear(y) == IF IsLeap(y) THEN 366 ELSE 365

RECURSIVE YearStart(_)
YearStart(y) == IF y = Epoch.y THEN 0 ELSE YearStart(y - 1) + DaysInYear(y - 1)

RECURSIVE MonthStart(_, _)
MonthStart(y, m) ==
    IF m = 0 THEN YearStart(y) ELSE MonthStart(y, m - 1) + DaysInMonth(y, m - 1)

\* MakeDay(year, month, date): month from 0, date from 1, either beyond its range
MakeDay(y, m, dt) == MonthStart(y + (m \div 12), m % 12) + dt - 1

GetFullYear(t) == CHOOSE y \in Years : YearStart(y) <= t /\ t < YearStart(y + 1)
GetMonth(t) ==
    LET y == GetFullYear(t)
    IN  CHOOSE m \in 0 .. 11 :
            MonthStart(y, m) <= t /\ t < MonthStart(y, m) + DaysInMonth(y, m)
GetDate(t) == t - MonthStart(GetFullYear(t), GetMonth(t)) + 1

\* d.setDate(n) and d.setMonth(n), as the new time value of d
SetDate(t, n) == MakeDay(GetFullYear(t), GetMonth(t), n)
SetMonth(t, n) == MakeDay(GetFullYear(t), n, GetDate(t))

\* new Date("YYYY-MM-DD")
ParseDate(date) == MakeDay(date.y, date.m - 1, date.d)

Ymd(y, m, d) == [y |-> y, m |-> m, d |-> d]

----------------------------------------------------------------------------
(* GET /api/dashboard/sales *)

Periods == {"unset", "day", "week", "month"}
QueryDates == {Ymd(2024, 1, 15), Ymd(2024, 1, 31), Ymd(2024, 12, 31)}

\* lines 151-156: the end of the window
WindowEnd(period, start) ==
    IF period = "week" THEN SetDate(start, GetDate(start) + 7)
    ELSE IF period = "month" THEN SetMonth(start, GetMonth(start) + 1)
    ELSE SetDate(start, GetDate(start) + 1)

\* Order.find({ createdAt: { $gte: start, $lt: end } }), in insertion order
FindBetween(store, start, end) ==
    SelectSeq(store, LAMBDA o : start <= o.createdAt /\ o.createdAt < end)

\* ... with status: { $ne: "deleted" }
FindSales(store, start, end) ==
    SelectSeq(FindBetween(store, start, end), LAMBDA o : o.status # "deleted")

\* orders.reduce((s, o) => s + o.total, 0)
RECURSIVE ReduceSales(_, _)
ReduceSales(sum, found) ==
    IF found = <<>> THEN sum
    ELSE ReduceSales(sum + Head(found).total, Tail(found))

\* lines 148-166
SalesSummary(period, date) ==
    /\ LET start == ParseDate(date)
           end == WindowEnd(period, start)
           found == FindSales(orders, start, end)
       IN  report' = [op |-> "sales", period |-> period, start |-> start,
                      end |-> end, total |-> ReduceSales(0, found),
                      count |-> Len(found), null |-> FALSE, name |-> ""]
    /\ UNCHANGED <<orders, req, events, clock, nUpdates, managers, mgrResp>>

----------------------------------------------------------------------------
(* GET /api/dashboard/topdish *)

\* the names that are array indices: an object lists these keys first, in
\* ascending numeric order, and the other keys after them as they were added
IndexNames == {"7"}
IndexValue(name) == CASE name = "7" -> 7 [] OTHER -> 0
IsIndex(name) == name \in IndexNames

\* whether key a is listed before key b, of which a is the one added later
ListedBefore(a, b) ==
    IsIndex(a) /\ (~IsIndex(b) \/ IndexValue(a) < IndexValue(b))

\* a new key among the entries of the object, in the object's key order
RECURSIVE AddKey(_, _)
AddKey(entries, e) ==
    IF entries = <<>> THEN <<e>>
    ELSE IF ListedBefore(e.name, Head(entries).name) THEN <<e>> \o entries
    ELSE <<Head(entries)>> \o AddKey(Tail(entries), e)

\* dishCount[i.name] = (dishCount[i.name] || 0) + i.qty
Tally(entries, item) ==
    IF \E k \in 1 .. Len(entries) : entries[k].name = item.name
    THEN [k \in 1 .. Len(entries) |->
            IF entries[k].name = item.name
            THEN [entries[k] EXCEPT !.count = @ + item.qty.v]
            ELSE entries[k]]
    ELSE AddKey(entries, [name |-> item.name, count |-> item.qty.v])

RECURSIVE TallyItems(_, _)
TallyItems(entries, items) ==
    IF items = <<>> THEN entries
    ELSE TallyItems(Tally(entries, Head(items)), Tail(items))

\* orders.forEach(o => o.items.forEach(...)); Object.entries(dishCount)
RECURSIVE DishCount(_, _)
DishCount(entries, found) ==
    IF found = <<>> THEN entries
    ELSE DishCount(TallyItems(entries, Head(found).items), Tail(found))

\* e into a sequence sorted by descending count, after its equals
RECURSIVE InsertSorted(_, _)
InsertSorted(sorted, e) ==
    IF sorted = <<>> THEN <<e>>
    ELSE IF Head(sorted).count < e.count THEN <<e>> \o sorted
    ELSE <<Head(sorted)>> \o InsertSorted(Tail(sorted), e)

\* .sort((a, b) => b[1] - a[1]): descending by count, stable
RECURSIVE SortByCount(_, _)
SortByCount(sorted, entries) ==
    IF entries = <<>> THEN sorted
    ELSE SortByCount(InsertSorted(sorted, Head(entries)), Tail(entries))

\* lines 169-194
TopDish(date) ==
    /\ LET start == ParseDate(date)
           end == SetDate(start, GetDate(start) + 1)
           found == FindBetween(orders, start, end)
           sorted == SortByCount(<<>>, DishCount(<<>>, found))
       IN  report' = IF sorted = <<>>
                     THEN [NoReport EXCEPT !.op = "topdish", !.start = start,
                                           !.end = end]
                     ELSE [NoReport EXCEPT !.op = "topdish", !.start = start,
                                           !.end = end, !.null = FALSE,
                                           !.name = sorted[1].name,
                                           !.count = sorted[1].count]
    /\ UNCHANGED <<orders, req, events, clock, nUpdates, managers, mgrResp>>

----------------------------------------------------------------------------
(* The dashboard over a store of Orders *)

MaxStored == 2      \* Orders in the store of the reports

StoredDays == {ParseDate(Ymd(2024, 1, 15)), ParseDate(Ymd(2024, 1, 31)),
               ParseDate(Ymd(2024, 2, 15)), ParseDate(Ymd(2024, 3, 1))}
StoredStatuses == {"new", "deleted"}
StoredItems ==
    { <<Item("Margherita", Num(3), Num(2))>>,
      <<Item("7", Num(2), Num(2))>>,
      <<Item("Pepperoni", Num(4), Num(1)), Item("Margherita", Num(3), Num(1)),
        Item("Pepperoni", Num(4), Num(2))>> }

\* the stores that creates and status updates leave: each Order as its
\* create made it, with the computed total, in the order of creation
ReportStores ==
    UNION { { [i \in 1 .. n |->
                 NewDocument(i, OrderFields([customerName |-> "asha",
                                             status |-> Status(f[i][2]),
                                             total |-> Undef,
                                             items |-> Arr(f[i][3])],
                                            ReduceTotal(Num(0), f[i][3])),
                             f[i][1])] :
              f \in { g \in [1 .. n -> StoredDays \X StoredStatuses \X StoredItems] :
                        \A i \in 1 .. (n - 1) : g[i][1] <= g[i + 1][1] } } :
            n \in 0 .. MaxStored }

InitReport ==
    /\ orders \in ReportStores
    /\ req = [r \in Reqs |-> IdleReq]
    /\ events = <<>>
    /\ clock = ParseDate(Ymd(2024, 3, 1))
    /\ nUpdates = 0
    /\ managers = <<>>
    /\ mgrResp = NoMgrResp
    /\ report = NoReport

NextReport ==
    \/ \E period \in Periods, date \in QueryDates : SalesSummary(period, date)
    \/ \E date \in QueryDates : TopDish(date)

SpecReport == InitReport /\ [][NextReport]_vars

InWindow(start, end) ==
    {i \in 1 .. Len(orders) : start <= orders[i].createdAt /\ orders[i].createdAt < end}

RECURSIVE SumTotals(_)
SumTotals(ids) ==
    IF ids = {} THEN 0
    ELSE LET i == CHOOSE j \in ids : TRUE
         IN  orders[i].total + SumTotals(ids \ {i})

\* C5: salesSummary answers the count and the sum of the totals of the
\* Orders created in [date, end) and not deleted, where end is the next day
\* for period unset or "day", seven days on for "week" and, for "month", the
\* same day-of-month of the next calendar month.
C5_SalesWindow ==
    report.op = "sales" =>
        LET counted == {i \in InWindow(report.start, report.end) :
                            orders[i].status # "deleted"}
        IN  /\ report.count = Cardinality(counted)
            /\ report.total = SumTotals(counted)
            /\ report.period \in {"unset", "day"} => report.end = report.start + 1
            /\ report.period = "week" => report.end = report.start + 7
            /\ report.period = "month" =>
                  /\ GetDate(report.end) = GetDate(report.start)
                  /\ GetMonth(report.end) = (GetMonth(report.start) + 1) % 12
                  /\ report.end - report.start <= 31

\* the item names of the window's orders, in the order they are met
RECURSIVE NamesMet(_)
NamesMet(found) ==
    IF found = <<>> THEN <<>>
    ELSE [k \in 1 .. Len(Head(found).items) |-> Head(found).items[k].name]
         \o NamesMet(Tail(found))

RECURSIVE QtyOf(_, _)
QtyOf(name, found) ==
    IF found = <<>> THEN 0
    ELSE LET items == Head(found).items
             mine == {k \in 1 .. Len(items) : items[k].name = name}
             RECURSIVE Sum(_)
             Sum(ks) == IF ks = {} THEN 0
                        ELSE LET k == CHOOSE j \in ks : TRUE
                             IN  items[k].qty.v + Sum(ks \ {k})
         IN  Sum(mine) + QtyOf(name, Tail(found))

\* C6: topDish answers the name with the highest cumulative qty over the
\* items of the Orders of [date, date + 1 day), of any status, with that
\* quantity; of several names with the highest, the one met first.
C6_TopDishFirstMet ==
    report.op = "topdish" =>
        LET found == FindBetween(orders, report.start, report.start + 1)
            met == NamesMet(found)
            best == {k \in 1 .. Len(met) :
                        \A j \in 1 .. Len(met) :
                            QtyOf(met[j], found) <= QtyOf(met[k], found)}
            first == CHOOSE k \in best : \A j \in best : k <= j
        IN  IF met = <<>> THEN report.null
            ELSE /\ ~report.null
                 /\ report.name = met[first]
                 /\ report.count = QtyOf(met[first], found)

----------------------------------------------------------------------------
(* Manager login and change of credentials *)

MaxManagers == 2    \* Manager documents in the store

\* a field of a JSON body is a string or an object; the store reads an object
\* given as a filter's value as query operators, here { "$ne": null }
Str(s) == [t |-> "str", v |-> s]
NeNull == [t |-> "ne", v |-> ""]

Usernames == {"admin", "Admin"}
Passwords == {"pizza", "secret"}
GivenUsers == {Str(u) : u \in Usernames} \cup {NeNull}
GivenPasswords == {Str(p) : p \in Passwords} \cup {NeNull}

\* whether a document's field satisfies a filter's value: equality with a
\* string, "is not null" for the operator
Satisfies(field, given) == IF given.t = "ne" THEN TRUE ELSE field = given.v

\* Manager.findOne({ username, password }): the position of the first
\* document that matches, 0 when none does
FindOne(store, user, pass) ==
    LET hits == {i \in 1 .. Len(store) :
                    /\ Satisfies(store[i].username, user)
                    /\ Satisfies(store[i].password, pass)}
    IN  IF hits = {} THEN 0 ELSE CHOOSE i \in hits : \A j \in hits : i <= j

MgrResp(op, user, pass, code, success, before) ==
    [op |-> op, user |-> user, pass |-> pass, code |-> code,
     success |-> success, before |-> before]

\* lines 199-209
Login(user, pass) ==
    /\ mgrResp' = IF FindOne(managers, user, pass) = 0
                  THEN MgrResp("login", user, pass, 401, FALSE, managers)
                  ELSE MgrResp("login", user, pass, 200, TRUE, managers)
    /\ UNCHANGED <<orders, req, events, clock, nUpdates, managers, report>>

\* lines 212-229
ChangeCredentials(user, pass, newUser, newPass) ==
    /\ LET i == FindOne(managers, user, pass)
       IN  IF i = 0
           THEN /\ mgrResp' = MgrResp("change", user, pass, 401, FALSE, managers)
                /\ managers' = managers
           ELSE /\ managers' = [managers EXCEPT ![i] =
                                   [username |-> newUser, password |-> newPass]]
                /\ mgrResp' = MgrResp("change", user, pass, 200, TRUE, managers)
    /\ UNCHANGED <<orders, req, events, clock, nUpdates, report>>

\* Manager documents are created out of band
InitMgr ==
    /\ orders = <<>>
    /\ req = [r \in Reqs |-> IdleReq]
    /\ events = <<>>
    /\ clock = 0
    /\ nUpdates = 0
    /\ managers \in UNION { [1 .. n -> [username : Usernames, password : Passwords]] :
                            n \in 1 .. MaxManagers }
    /\ mgrResp = NoMgrResp
    /\ report = NoReport

NextMgr ==
    \/ \E user \in GivenUsers, pass \in GivenPasswords : Login(user, pass)
    \/ \E user \in GivenUsers, pass \in GivenPasswords,
          newUser \in Usernames, newPass \in Passwords :
          ChangeCredentials(user, pass, newUser, newPass)

SpecMgr == InitMgr /\ [][NextMgr]_vars

\* a document whose username and password are exactly the given strings
MatchesExactly(doc, user, pass) ==
    /\ user.t = "str" /\ doc.username = user.v
    /\ pass.t = "str" /\ doc.password = pass.v

\* C9: changeCredentials changes the Managers only when a document matches
\* currentUser and currentPassword exactly: then one matching document, and
\* no other, may differ afterwards and the answer is success:true; else the
\* answer is the 401 failure and the collection is as before.
C9_ChangeNeedsExactMatch ==
    mgrResp.op = "change" =>
        LET before == mgrResp.before
            hits == {i \in 1 .. Len(before) :
                        MatchesExactly(before[i], mgrResp.user, mgrResp.pass)}
        IN  /\ Len(managers) = Len(before)
            /\ IF hits = {}
               THEN /\ managers = before
                    /\ mgrResp.code = 401 /\ ~mgrResp.success
               ELSE /\ mgrResp.code = 200 /\ mgrResp.success
                    /\ \E i \in hits :
                          \A j \in 1 .. Len(before) :
                              j # i => managers[j] = before[j]

====
